---- MODULE Spec2Model ----
(***************************************************************************)
(* x402-ParsePro: the HTTP 402 payment handshake of src/x402_parsepro/app.py *)
(*                                                                         *)
(* One HttpxHooks instance per client (x402_payment_hooks builds it in     *)
(* _x402HttpxClient.__init__).  A client sends requests one after another; *)
(* httpx calls HttpxHooks.on_response on every response it builds.         *)
(* on_response is a coroutine: it is modelled as one action per segment    *)
(* between two awaits (response.aread(), client.send(request)).            *)
(***************************************************************************)
EXTENDS Integers, Sequences, FiniteSets, TLC

\* ------------------------------------------------------------- bounds
MaxRequests == 2   \* requests one client sends one after another
MaxAccepts == 2    \* entries of a challenge's accepts list
MaxAmtLen == 3     \* characters of a maxAmountRequired string (SpecReq)

\* ------------------------------------------------------------- values
Clients == {"c1", "c2"}

None == "None"

Schemes == {"exact", "upto"}
Networks == {"eip155:8453", "base", "solana"}

\* Strings that are parsed are sequences of one-character strings.
AmtChars == {"0", "1", "5", "-", "+", ".", "_", " ", "a"}
Digits == {"0", "1", "2", "3", "4", "5", "6", "7", "8", "9"}

RECURSIVE StringsUpTo(_)
StringsUpTo(n) ==
    IF n = 0 THEN {<<>>}
    ELSE LET shorter == StringsUpTo(n - 1)
         IN shorter \cup {Append(s, ch) : s \in {t \in shorter : Len(t) = n - 1}, ch \in AmtChars}

\* The amounts a server sends in the handshake model: "", "1000", "12.5".
WireAmounts == {<<>>, <<"1", "0", "0", "0">>, <<"1", "2", ".", "5">>}

\* ------------------------------------------------- Python's int(str)
RECURSIVE StripLeft(_)
StripLeft(s) == IF s # <<>> /\ Head(s) = " " THEN StripLeft(Tail(s)) ELSE s

RECURSIVE StripRight(_)
StripRight(s) ==
    IF s # <<>> /\ s[Len(s)] = " " THEN StripRight(SubSeq(s, 1, Len(s) - 1)) ELSE s

Strip(s) == StripRight(StripLeft(s))

Unsigned(s) == IF s # <<>> /\ Head(s) \in {"+", "-"} THEN Tail(s) ELSE s

\* digit ("_"? digit)*: a digit at both ends, never two underscores in a row
DigitGroups(s) ==
    /\ s # <<>>
    /\ \A i \in 1..Len(s) : s[i] \in Digits \cup {"_"}
    /\ s[1] \in Digits
    /\ s[Len(s)] \in Digits
    /\ \A i \in 1..(Len(s) - 1) : ~(s[i] = "_" /\ s[i + 1] = "_")

\* int(v) returns (does not raise ValueError)
IntParses(v) == DigitGroups(Unsigned(Strip(v)))

DigitVal(ch) ==
    CASE ch = "0" -> 0 [] ch = "1" -> 1 [] ch = "2" -> 2 [] ch = "3" -> 3
      [] ch = "4" -> 4 [] ch = "5" -> 5 [] ch = "6" -> 6 [] ch = "7" -> 7
      [] ch = "8" -> 8 [] ch = "9" -> 9 [] OTHER -> 0

RECURSIVE DigitsValue(_, _)
DigitsValue(s, acc) ==
    IF s = <<>> THEN acc
    ELSE IF Head(s) = "_" THEN DigitsValue(Tail(s), acc)
    ELSE DigitsValue(Tail(s), 10 * acc + DigitVal(Head(s)))

\* the value of int(v), for a v that parses
IntValue(v) ==
    LET t == Strip(v)
        m == DigitsValue(Unsigned(t), 0)
    IN IF t # <<>> /\ Head(t) = "-" THEN 0 - m ELSE m

\* ------------------------------------------ PaymentRequirements model
NoReq == [scheme |-> "none", network |-> "none", max_amount_required |-> <<>>]

\* @field_validator("max_amount_required"): TRUE when no ValueError is raised
validate_max_amount_required(v) == IF Len(v) = 0 THEN TRUE ELSE IntParses(v)

\* @field_validator("network")
validate_network_Identity(v) == v
validate_network(v) == IF v = "eip155:8453" THEN "base" ELSE v

\* PaymentRequirements(**raw): the fields the handshake reads.  The other
\* required fields (resource, description, mimeType, payTo,
\* maxTimeoutSeconds, asset) are taken as present and well typed.
PaymentRequirements(raw) ==
    IF validate_max_amount_required(raw.maxAmountRequired)
    THEN [ok |-> TRUE,
          req |-> [scheme |-> raw.scheme,
                   network |-> validate_network(raw.network),
                   max_amount_required |-> raw.maxAmountRequired]]
    ELSE [ok |-> FALSE, req |-> NoReq]

\* ------------------------------------------------------ HTTP values
\* A response body.  shape is what response.json() makes of the bytes:
\* "unread" (not read from the wire yet), "text" (text that is not JSON),
\* "array" (JSON, not an object), "object" (a JSON object), "binary" (bytes
\* that json() cannot decode into text).  utf8: the bytes are valid UTF-8, so
\* that bytes.decode() returns.
Body(shape, tag, hasVersion, version, accepts) ==
    [shape |-> shape, tag |-> tag, hasVersion |-> hasVersion,
     version |-> version, accepts |-> accepts, utf8 |-> shape # "binary"]

\* the same text sent as UTF-16: not UTF-8, yet json() detects the encoding
Utf16(body) == [body EXCEPT !.utf8 = FALSE]

Unread == Body("unread", "", FALSE, 0, <<>>)
TextBody(t) == Body("text", t, FALSE, 0, <<>>)
BinaryBody == Body("binary", "PDF", FALSE, 0, <<>>)

RawReqs == [scheme : Schemes, network : Networks, maxAmountRequired : WireAmounts]
AcceptsLists == UNION {[1..n -> RawReqs] : n \in 0..MaxAccepts}
Versions == {1, 2}

\* the challenges sent while two exchanges run side by side: one that can be
\* paid and one that cannot be parsed
ConcurrentBodies ==
    {Body("object", "", TRUE, 1,
          <<[scheme |-> "exact", network |-> "base", maxAmountRequired |-> <<"1", "0", "0", "0">>]>>),
     TextBody("not json")}

\* what a server may send as the body of a 402
ChallengeBodies ==
    {Body("object", "", TRUE, v, a) : v \in Versions, a \in AcceptsLists}
    \cup {Body("object", "", FALSE, 0, a) : a \in AcceptsLists}
    \cup {TextBody("not json"), Body("array", "", FALSE, 0, <<>>), BinaryBody}
    \cup {Utf16(b) : b \in ConcurrentBodies}
ChallengeBodiesFor(act) == IF Cardinality(act) > 1 THEN ConcurrentBodies ELSE ChallengeBodies

RetryBodies == {TextBody("B1"), TextBody("B2"), BinaryBody}

Statuses == {200, 402, 500}
ReceiptHeaders == {"absent", "receipt:0xabc", "garbage"}
HeaderSets == [x_payment_response : ReceiptHeaders]

NoResponse == [status |-> 0, headers |-> [x_payment_response |-> "absent"], content |-> Unread]
\* a response as httpx hands it to the response hooks: body not read yet
Responses ==
    [status : Statuses, headers : [x_payment_response : {"absent", "receipt:0xabc"}],
     content : {Unread}]
\* a response of the resend: client.send(request) reads the body
RetryResponses == [status : Statuses, headers : HeaderSets, content : RetryBodies]

\* the answers to a resend while two exchanges run side by side: one body
RetryResponsesFor(act) ==
    IF Cardinality(act) > 1
    THEN {r \in RetryResponses : r.content = TextBody("B1")}
    ELSE RetryResponses

NoHeaders == [x_payment |-> "absent", access_control_expose_headers |-> "absent"]

\* HTTPX_DEFAULT_TIMEOUT's default, the timeout parse_pdf gives its client
httpx_default_timeout == 60
ClientTimeout == [limited |-> TRUE, seconds |-> httpx_default_timeout]
\* Timeout(timeout=None)
NoTimeout == [limited |-> FALSE, seconds |-> 0]
\* a Request no client has sent yet has no timeout in its extensions
TimeoutNotSet == [limited |-> FALSE, seconds |-> 0 - 1]

\* AsyncClient.send(request): the client's timeout is put on the request only
\* when the request carries none; the value the transport is given
set_timeout_ClientsOwn(request_timeout, client_timeout) == client_timeout
set_timeout(request_timeout, client_timeout) ==
    IF request_timeout = TimeoutNotSet THEN client_timeout ELSE request_timeout

\* what a send may raise in the transport
TransportErrors == {"ConnectError", "ReadTimeout"}

\* ------------------------------------------------------------ errors
\* the error select fails with (spec 4.2), a payment-domain error (spec 6)
NoAcceptableRequirement == "NoAcceptableRequirement"

\* PaymentError and its subclasses: MissingRequestConfigError, a PaymentError
\* raised by create_payment_header, the selector's error
PaymentErrors ==
    {"MissingRequestConfigError", "IssuerPaymentError", NoAcceptableRequirement}
IsPaymentError(e) == e \in PaymentErrors

\* PaymentError(f"Failed to handle payment: {str(e)}")
Wrapper == "PaymentError(Failed to handle payment)"

\* what create_payment_header may do: return a header value, raise a
\* PaymentError, raise another Exception
Credentials == {"PAID123", "PAID456"}
IssuerOutcomes ==
    {[ok |-> TRUE, header |-> h, err |-> "none"] : h \in Credentials}
    \cup {[ok |-> FALSE, header |-> "absent", err |-> e] : e \in {"IssuerPaymentError", "IssuerError"}}
NoIssue == [ok |-> FALSE, header |-> "absent", err |-> "none"]

\* --------------------------------------------------- challenge model
\* response.json(): the bytes are decoded in the encoding detected from them
\* (UTF-8, UTF-16, UTF-32), then parsed
ResponseJson(body) ==
    IF body.shape \in {"object", "array"}
    THEN [ok |-> TRUE, err |-> "none"]
    ELSE IF body.shape = "binary"
    THEN [ok |-> FALSE, err |-> "UnicodeDecodeError"]
    ELSE [ok |-> FALSE, err |-> "JSONDecodeError"]

\* x402PaymentRequiredResponse(**data)
x402PaymentRequiredResponse(data) ==
    IF data.shape # "object"
    THEN [ok |-> FALSE, err |-> "TypeError", x402_version |-> 0, accepts |-> <<>>]
    ELSE IF ~data.hasVersion
            \/ \E i \in 1..Len(data.accepts) : ~PaymentRequirements(data.accepts[i]).ok
    THEN [ok |-> FALSE, err |-> "ValidationError", x402_version |-> 0, accepts |-> <<>>]
    ELSE [ok |-> TRUE, err |-> "none", x402_version |-> data.version,
          accepts |-> [i \in 1..Len(data.accepts) |-> PaymentRequirements(data.accepts[i]).req]]

\* ----------------------------------------------------------- selector
NoMaxValue == [set |-> FALSE, val |-> 0]
MaxValues == {NoMaxValue, [set |-> TRUE, val |-> 500], [set |-> TRUE, val |-> 1000]}

Selected(r) == [ok |-> TRUE, err |-> "none", req |-> r]
SelectFails(e) == [ok |-> FALSE, err |-> e, req |-> NoReq]

\* "if custom_network_filter:": None and "" are false
Truthy(x) == x # None /\ x # ""

\* the numeric amount of a requirement: the decimal string, "" taken as zero
\* (spec 3)
NumericAmount(v) == IF v = <<>> THEN 0 ELSE IntValue(v)

\* x402Client.default_payment_requirements_selector, the Requirement Selector
\* of spec 4.2: the first entry, in server order, whose network equals the
\* network filter if one is provided, whose scheme equals the scheme filter if
\* one is provided and whose amount is at most max_value if one is provided;
\* NoAcceptableRequirement when there is none
RECURSIVE default_payment_requirements_selector(_, _, _, _)
default_payment_requirements_selector(accepts, network_filter, scheme_filter, max_value) ==
    IF accepts = <<>> THEN SelectFails(NoAcceptableRequirement)
    ELSE LET r == Head(accepts)
             next == default_payment_requirements_selector(
                         Tail(accepts), network_filter, scheme_filter, max_value)
         IN IF network_filter # None /\ r.network # network_filter THEN next
            ELSE IF scheme_filter # None /\ r.scheme # scheme_filter THEN next
            ELSE IF max_value.set /\ NumericAmount(r.max_amount_required) > max_value.val
                 THEN next
            ELSE Selected(r)

\* parse_pdf.custom_payment_selector
custom_payment_selector_NoOverride(custom_network_filter, accepts, network_filter, scheme_filter, max_value) ==
    default_payment_requirements_selector(accepts, network_filter, scheme_filter, max_value)
custom_payment_selector(custom_network_filter, accepts, network_filter, scheme_filter, max_value) ==
    default_payment_requirements_selector(
        accepts,
        IF Truthy(custom_network_filter) THEN custom_network_filter ELSE network_filter,
        scheme_filter, max_value)

\* x402Client.select_payment_requirements(accepts), as on_response calls it
select_payment_requirements(cf, accepts) ==
    custom_payment_selector(cf.custom_network_filter, accepts, None, None, cf.max_value)

\* How a client is built.  via "parse_pdf": by one parse_pdf call, with its
\* custom_network_filter argument, no max_value, for one request.  via
\* "direct": an _x402HttpxClient built by other code, with a max_value and the
\* default selector, used for several requests.
CustomNetworkFilters == {None, "", "base"}
Configs ==
    {[custom_network_filter |-> f, max_value |-> NoMaxValue, via |-> "parse_pdf"] :
        f \in CustomNetworkFilters}
    \cup {[custom_network_filter |-> None, max_value |-> m, via |-> "direct"] : m \in MaxValues}
NoConfig == [custom_network_filter |-> None, max_value |-> NoMaxValue, via |-> "direct"]

\* ------------------------------------------------------ on_response
\* "if response.status_code != 402: return response" and
\* "if self._is_retry: return response"
PassThrough_IgnoresFlag(status, flag) == status # 402
PassThrough_Only200(status, flag) == status = 200 \/ flag
PassThrough(status, flag) == status # 402 \/ flag

\* the handler's local variables while it is suspended in client.send
NoFrame ==
    [data |-> Unread, x402_version |-> 0, accepts |-> <<>>, selector_input |-> <<>>,
     selected_requirements |-> NoReq, issuer_requirements |-> NoReq,
     issuer_version |-> 0, payment_header |-> "absent"]

Raises(e, ev) == [ok |-> FALSE, err |-> e, events |-> ev, frame |-> NoFrame, issuer_called |-> FALSE]

\* The synchronous part of the try block, from response.json() to the header
\* assignments: body is what aread() read, io what create_payment_header does
\* when it is called.  events lists the steps taken, in the order taken.
HandleChallenge_SelectsRaw(cf, body, io) ==
    LET json == ResponseJson(body)
        payment_response == x402PaymentRequiredResponse(body)
        raw == [i \in 1..Len(body.accepts) |->
                   [scheme |-> body.accepts[i].scheme, network |-> body.accepts[i].network,
                    max_amount_required |-> body.accepts[i].maxAmountRequired]]
        sel == select_payment_requirements(cf, raw)
    IN IF ~json.ok THEN Raises(json.err, <<>>)
       ELSE IF ~sel.ok THEN Raises(sel.err, <<"select">>)
       ELSE IF ~payment_response.ok THEN Raises(payment_response.err, <<"select">>)
       ELSE IF ~io.ok THEN [Raises(io.err, <<"select", "parse", "issue">>) EXCEPT !.issuer_called = TRUE]
       ELSE [ok |-> TRUE, err |-> "none", events |-> <<"select", "parse", "issue">>,
             issuer_called |-> TRUE,
             frame |-> [data |-> body, x402_version |-> payment_response.x402_version,
                        accepts |-> payment_response.accepts, selector_input |-> raw,
                        selected_requirements |-> sel.req, issuer_requirements |-> sel.req,
                        issuer_version |-> payment_response.x402_version,
                        payment_header |-> io.header]]

HandleChallenge_DefaultVersion(cf, body, io) ==
    LET json == ResponseJson(body)
        payment_response == x402PaymentRequiredResponse(body)
        sel == select_payment_requirements(cf, payment_response.accepts)
    IN IF ~json.ok THEN Raises(json.err, <<>>)
       ELSE IF ~payment_response.ok THEN Raises(payment_response.err, <<>>)
       ELSE IF ~sel.ok THEN Raises(sel.err, <<"parse", "select">>)
       ELSE IF ~io.ok THEN [Raises(io.err, <<"parse", "select", "issue">>) EXCEPT !.issuer_called = TRUE]
       ELSE [ok |-> TRUE, err |-> "none", events |-> <<"parse", "select", "issue">>,
             issuer_called |-> TRUE,
             frame |-> [data |-> body, x402_version |-> payment_response.x402_version,
                        accepts |-> payment_response.accepts,
                        selector_input |-> payment_response.accepts,
                        selected_requirements |-> sel.req,
                        issuer_requirements |-> sel.req,
                        issuer_version |-> 1,
                        payment_header |-> io.header]]

HandleChallenge_IgnoresIssuerFailure(cf, body, io) ==
    LET json == ResponseJson(body)
        payment_response == x402PaymentRequiredResponse(body)
        sel == select_payment_requirements(cf, payment_response.accepts)
    IN IF ~json.ok THEN Raises(json.err, <<>>)
       ELSE IF ~payment_response.ok THEN Raises(payment_response.err, <<>>)
       ELSE IF ~sel.ok THEN Raises(sel.err, <<"parse", "select">>)
       ELSE [ok |-> TRUE, err |-> "none", events |-> <<"parse", "select", "issue">>,
             issuer_called |-> TRUE,
             frame |-> [data |-> body, x402_version |-> payment_response.x402_version,
                        accepts |-> payment_response.accepts,
                        selector_input |-> payment_response.accepts,
                        selected_requirements |-> sel.req,
                        issuer_requirements |-> sel.req,
                        issuer_version |-> payment_response.x402_version,
                        payment_header |-> io.header]]

HandleChallenge(cf, body, io) ==
    LET json == ResponseJson(body)
        payment_response == x402PaymentRequiredResponse(body)
        sel == select_payment_requirements(cf, payment_response.accepts)
    IN IF ~json.ok THEN Raises(json.err, <<>>)
       ELSE IF ~payment_response.ok THEN Raises(payment_response.err, <<>>)
       ELSE IF ~sel.ok THEN Raises(sel.err, <<"parse", "select">>)
       ELSE IF ~io.ok THEN [Raises(io.err, <<"parse", "select", "issue">>) EXCEPT !.issuer_called = TRUE]
       ELSE [ok |-> TRUE, err |-> "none", events |-> <<"parse", "select", "issue">>,
             issuer_called |-> TRUE,
             frame |-> [data |-> body, x402_version |-> payment_response.x402_version,
                        accepts |-> payment_response.accepts,
                        selector_input |-> payment_response.accepts,
                        selected_requirements |-> sel.req,
                        issuer_requirements |-> sel.req,
                        issuer_version |-> payment_response.x402_version,
                        payment_header |-> io.header]]

\* request.headers["X-Payment"] = payment_header
\* request.headers["Access-Control-Expose-Headers"] = "X-Payment-Response"
PaymentHeaders(headers, payment_header) ==
    [headers EXCEPT !.x_payment = payment_header,
                    !.access_control_expose_headers = "X-Payment-Response"]

\* "request = response.request": the object whose headers are assigned is the
\* original request itself; its headers after the two assignments
OriginalRequestAfter_Clone(headers, payment_header) == headers
OriginalRequestAfter(headers, payment_header) == PaymentHeaders(headers, payment_header)

\* response.status_code / .headers / ._content = retry_response's
CopyRetry_KeepsBody(response, retry_response) ==
    [response EXCEPT !.status = retry_response.status, !.headers = retry_response.headers]
CopyRetry(response, retry_response) ==
    [response EXCEPT !.status = retry_response.status,
                     !.headers = retry_response.headers,
                     !.content = retry_response.content]

\* The two except clauses: what is raised for the exception e caught, and the
\* value _is_retry is left with.  origin keeps e for the properties.
Pending == [kind |-> "pending", err |-> "none", cause |-> "none", origin |-> "none"]
\* e was raised inside "async with AsyncClient(...)" and has not reached the
\* except clauses yet
Raising(e) == [kind |-> "raising", err |-> "none", cause |-> "none", origin |-> e]
Returned == [kind |-> "returned", err |-> "none", cause |-> "none", origin |-> "none"]
\* e was raised outside on_response's try block (by a send, by a read)
RaisedBy(e) == [kind |-> "raised", err |-> e, cause |-> "none", origin |-> "none"]

ExceptClauses_WrapsAll(e, flag) ==
    [outcome |-> [kind |-> "raised", err |-> Wrapper, cause |-> e, origin |-> e],
     is_retry |-> FALSE]
ExceptClauses_WrapKeepsFlag(e, flag) ==
    IF IsPaymentError(e)
    THEN [outcome |-> [kind |-> "raised", err |-> e, cause |-> "none", origin |-> e],
          is_retry |-> FALSE]
    ELSE [outcome |-> [kind |-> "raised", err |-> Wrapper, cause |-> e, origin |-> e],
          is_retry |-> flag]
ExceptClauses(e, flag) ==
    IF IsPaymentError(e)
    THEN [outcome |-> [kind |-> "raised", err |-> e, cause |-> "none", origin |-> e],
          is_retry |-> FALSE]
    ELSE [outcome |-> [kind |-> "raised", err |-> Wrapper, cause |-> e, origin |-> e],
          is_retry |-> FALSE]

\* -------------------------------------------------------- parse_pdf
\* parse_pdf posts one request through the client it builds
RequestsOf(cf) == IF cf.via = "parse_pdf" THEN 1 ELSE MaxRequests

\* hooks = HttpxHooks(client) in x402_payment_hooks, called by
\* _x402HttpxClient.__init__: the hooks object, and its _is_retry, of client c
HooksOf_Shared(c) == "c1"
HooksOf(c) == c

\* "if not response.request": a Response that httpx built has its request; one
\* that other code built and handed to on_response may have none
RequestSetFor(cf) == IF cf.via = "direct" THEN BOOLEAN ELSE {TRUE}

\* content.decode()
Utf8Decode(body) ==
    IF ~body.utf8
    THEN [ok |-> FALSE, err |-> "UnicodeDecodeError", text |-> Unread]
    ELSE [ok |-> TRUE, err |-> "none", text |-> body]

\* decode_x_payment_response(header), then payment_response["transaction"]
decode_x_payment_response(header) ==
    IF header = "receipt:0xabc"
    THEN [ok |-> TRUE, err |-> "none", transaction |-> "0xabc"]
    ELSE [ok |-> FALSE, err |-> "DecodeError", transaction |-> None]

\* what parse_pdf returns: {"result": ..., "hash": ...} or {"error": ...};
\* caught keeps the exception that logger.exception(e) logged
NoResult == [kind |-> "none", result |-> Unread, hash |-> None, caught |-> "none"]
Success(text, hash) == [kind |-> "success", result |-> text, hash |-> hash, caught |-> "none"]
Failure(e) == [kind |-> "error", result |-> Unread, hash |-> None, caught |-> e]
Propagated(e) == [kind |-> "raised", result |-> Unread, hash |-> None, caught |-> e]

\* client.post reads the body of the response the hooks returned, when it is
\* not read yet: the read gives a body or raises ReadError
ReadOutcomes ==
    {[ok |-> TRUE, body |-> b] : b \in RetryBodies} \cup {[ok |-> FALSE, body |-> Unread]}
\* the reads while two exchanges run side by side: one body, or a failure
ReadOutcomesFor(act) ==
    IF Cardinality(act) > 1
    THEN {rd \in ReadOutcomes : ~rd.ok \/ rd.body = TextBody("B1")}
    ELSE ReadOutcomes

\* The try block of parse_pdf and what follows it.  o: how client.post ended,
\* resp: the response it returned, its body read ("content = await
\* response.aread()" returns the body client.post read).
parse_pdf_result_Propagates(o, resp) ==
    IF o.kind = "raised" THEN Propagated(o.err)
    ELSE LET text == Utf8Decode(resp.content)
             header == resp.headers.x_payment_response
             payment_response == decode_x_payment_response(header)
         IN IF ~text.ok THEN Propagated(text.err)
            ELSE IF header = "absent" THEN Success(text.text, None)
            ELSE IF ~payment_response.ok THEN Propagated(payment_response.err)
            ELSE Success(text.text, payment_response.transaction)

parse_pdf_result_HashFromBody(o, resp) ==
    IF o.kind = "raised" THEN Failure(o.err)
    ELSE LET text == Utf8Decode(resp.content)
             header == resp.headers.x_payment_response
             payment_response == decode_x_payment_response(header)
         IN IF ~text.ok THEN Failure(text.err)
            ELSE IF header = "absent" THEN Success(text.text, text.text.tag)
            ELSE IF ~payment_response.ok THEN Failure(payment_response.err)
            ELSE Success(text.text, payment_response.transaction)

parse_pdf_result(o, resp) ==
    IF o.kind = "raised" THEN Failure(o.err)
    ELSE LET text == Utf8Decode(resp.content)
             header == resp.headers.x_payment_response
             payment_response == decode_x_payment_response(header)
         IN IF ~text.ok THEN Failure(text.err)
            ELSE IF header = "absent" THEN Success(text.text, None)
            ELSE IF ~payment_response.ok THEN Failure(payment_response.err)
            ELSE Success(text.text, payment_response.transaction)

\* ------------------------------------------------------------- state
VARIABLES
    active,    \* the clients that exist (built by a caller)
    cfg,       \* cfg[c]: the selector configuration client c was built with
    is_retry,  \* is_retry[c]: HttpxHooks._is_retry of client c's hooks
    pc,        \* pc[c]: "idle", "awaiting", "reading", "resending", "closing", "done"
    nreq,      \* nreq[c]: requests client c has sent so far
    request,   \* request[c]: the headers of the current Request object
    wire,      \* wire[c]: what was sent in the current exchange, in order
    arrived,   \* arrived[c]: the response as on_response received it
    response,  \* response[c]: the Response object on_response was given
    retry,     \* retry[c]: retry_response, once the resend answered
    frame,     \* frame[c]: on_response's locals while it awaits the resend
    issued,    \* issued[c]: what create_payment_header did, while frame is live
    events,    \* events[c]: the steps on_response took in the current exchange
    flag_in,   \* flag_in[c]: _is_retry when on_response was entered
    outcome,   \* outcome[c]: how on_response (or the send before it) ended
    post,      \* post[c]: how client.post ended for its caller, once it has
    result,    \* result[c]: what parse_pdf returned, once it has
    raw_in,    \* SpecReq: the data a PaymentRequirements is built from
    built      \* SpecReq: the result of building it

vars == <<active, cfg, is_retry, pc, nreq, request, wire, arrived, response, retry,
          frame, issued, events, flag_in, outcome, post, result, raw_in, built>>

hookvars == <<active, cfg, is_retry, pc, nreq, request, wire, arrived, response, retry,
              frame, issued, events, flag_in, outcome, post, result>>

NotBuilt == [state |-> "pending", req |-> NoReq]
DefaultRaw == [scheme |-> "exact", network |-> "base", maxAmountRequired |-> <<>>]

\* HttpxHooks.__init__ (self._is_retry = False) for every client
InitHooks(act) ==
    /\ active = act
    /\ cfg \in [Clients -> Configs]
    /\ \A c \in Clients \ act : cfg[c] = NoConfig
    /\ is_retry = [c \in Clients |-> FALSE]
    /\ pc = [c \in Clients |-> "idle"]
    /\ nreq = [c \in Clients |-> 0]
    /\ request = [c \in Clients |-> NoHeaders]
    /\ wire = [c \in Clients |-> <<>>]
    /\ arrived = [c \in Clients |-> NoResponse]
    /\ response = [c \in Clients |-> NoResponse]
    /\ retry = [c \in Clients |-> NoResponse]
    /\ frame = [c \in Clients |-> NoFrame]
    /\ issued = [c \in Clients |-> NoIssue]
    /\ events = [c \in Clients |-> <<>>]
    /\ flag_in = [c \in Clients |-> FALSE]
    /\ outcome = [c \in Clients |-> Pending]
    /\ post = [c \in Clients |-> Pending]
    /\ result = [c \in Clients |-> NoResult]

Init ==
    /\ InitHooks({"c1"})
    /\ raw_in = DefaultRaw
    /\ built = NotBuilt

\* client.post(...) / client.send(request): a new exchange begins
SendRequest(c) ==
    /\ c \in active
    /\ pc[c] = "idle" \/ (pc[c] = "done" /\ post[c] # Pending)
    /\ nreq[c] < RequestsOf(cfg[c])
    /\ pc' = [pc EXCEPT ![c] = "awaiting"]
    /\ nreq' = [nreq EXCEPT ![c] = @ + 1]
    /\ request' = [request EXCEPT ![c] = NoHeaders]
    /\ wire' = [wire EXCEPT ![c] =
                   <<[headers |-> NoHeaders,
                      timeout |-> set_timeout(TimeoutNotSet, ClientTimeout)]>>]
    /\ arrived' = [arrived EXCEPT ![c] = NoResponse]
    /\ response' = [response EXCEPT ![c] = NoResponse]
    /\ retry' = [retry EXCEPT ![c] = NoResponse]
    /\ events' = [events EXCEPT ![c] = <<>>]
    /\ outcome' = [outcome EXCEPT ![c] = Pending]
    /\ post' = [post EXCEPT ![c] = Pending]
    /\ UNCHANGED <<active, cfg, is_retry, frame, issued, flag_in, result, raw_in, built>>

\* the original request fails in the transport: no response, no hook call
SendFails(c) ==
    /\ pc[c] = "awaiting"
    /\ pc' = [pc EXCEPT ![c] = "done"]
    /\ \E e \in TransportErrors :
          /\ outcome' = [outcome EXCEPT ![c] = RaisedBy(e)]
          /\ post' = [post EXCEPT ![c] = RaisedBy(e)]
    /\ UNCHANGED <<active, cfg, is_retry, nreq, request, wire, arrived, response, retry,
                   frame, issued, events, flag_in, result, raw_in, built>>

\* on_response(response), up to its first await: the two pass-through tests
\* and "if not response.request", the first statement of the try block
Arrives(c, r, has_request) ==
    /\ arrived' = [arrived EXCEPT ![c] = r]
    /\ response' = [response EXCEPT ![c] = r]
    /\ flag_in' = [flag_in EXCEPT ![c] = is_retry[HooksOf(c)]]
    /\ IF PassThrough(r.status, is_retry[HooksOf(c)])
       THEN /\ pc' = [pc EXCEPT ![c] = "done"]
            /\ outcome' = [outcome EXCEPT ![c] = Returned]
            /\ UNCHANGED <<is_retry, post>>
       ELSE IF ~has_request
       THEN LET x == ExceptClauses("RuntimeError", is_retry[HooksOf(c)])
            IN /\ is_retry' = [is_retry EXCEPT ![HooksOf(c)] = x.is_retry]
               /\ outcome' = [outcome EXCEPT ![c] = x.outcome]
               /\ post' = [post EXCEPT ![c] = x.outcome]
               /\ pc' = [pc EXCEPT ![c] = "done"]
       ELSE /\ pc' = [pc EXCEPT ![c] = "reading"]
            /\ UNCHANGED <<outcome, is_retry, post>>
    /\ UNCHANGED <<active, cfg, nreq, request, wire, retry, frame, issued,
                   events, result, raw_in, built>>

OnResponse(c) ==
    /\ pc[c] = "awaiting"
    /\ \E r \in Responses : \E has_request \in RequestSetFor(cfg[c]) : Arrives(c, r, has_request)

\* await response.aread() raises (the body cannot be read)
ReadFails(c) ==
    /\ pc[c] = "reading"
    /\ LET x == ExceptClauses("ReadError", is_retry[HooksOf(c)])
       IN /\ is_retry' = [is_retry EXCEPT ![HooksOf(c)] = x.is_retry]
          /\ outcome' = [outcome EXCEPT ![c] = x.outcome]
          /\ post' = [post EXCEPT ![c] = x.outcome]
    /\ pc' = [pc EXCEPT ![c] = "done"]
    /\ UNCHANGED <<active, cfg, nreq, request, wire, arrived, response, retry, frame,
                   issued, events, flag_in, result, raw_in, built>>

\* await response.aread() returns body; then everything up to the next await:
\* json, parse, select, issue, self._is_retry = True, the two header
\* assignments on response.request, and client.send(request) is started on a
\* new AsyncClient(timeout=Timeout(timeout=None))
Handles(c, body, io) ==
    /\ response' = [response EXCEPT ![c].content = body]
    /\ \E h \in {HandleChallenge(cfg[c], body, io)} :
          IF h.ok
          THEN /\ is_retry' = [is_retry EXCEPT ![HooksOf(c)] = TRUE]
               /\ request' = [request EXCEPT ![c] =
                                 OriginalRequestAfter(@, h.frame.payment_header)]
               /\ wire' = [wire EXCEPT ![c] =
                              Append(@, [headers |-> PaymentHeaders(request[c], h.frame.payment_header),
                                         timeout |-> set_timeout(wire[c][1].timeout, NoTimeout)])]
               /\ frame' = [frame EXCEPT ![c] = h.frame]
               /\ issued' = [issued EXCEPT ![c] = io]
               /\ events' = [events EXCEPT ![c] = <<"read">> \o h.events \o <<"resend">>]
               /\ pc' = [pc EXCEPT ![c] = "resending"]
               /\ UNCHANGED <<outcome, post>>
          ELSE LET x == ExceptClauses(h.err, is_retry[HooksOf(c)])
               IN /\ is_retry' = [is_retry EXCEPT ![HooksOf(c)] = x.is_retry]
                  /\ outcome' = [outcome EXCEPT ![c] = x.outcome]
                  /\ post' = [post EXCEPT ![c] = x.outcome]
                  /\ events' = [events EXCEPT ![c] = <<"read">> \o h.events]
                  /\ pc' = [pc EXCEPT ![c] = "done"]
                  /\ UNCHANGED <<request, wire, frame, issued>>
    /\ UNCHANGED <<active, cfg, nreq, arrived, retry, flag_in, result, raw_in, built>>

\* create_payment_header has an outcome only when on_response calls it
IssuerOutcomesFor(cf, body) ==
    IF HandleChallenge(cf, body, NoIssue).issuer_called THEN IssuerOutcomes ELSE {NoIssue}

ReadDone(c) ==
    /\ pc[c] = "reading"
    /\ \E body \in ChallengeBodiesFor(active) :
          \E io \in IssuerOutcomesFor(cfg[c], body) : Handles(c, body, io)

\* retry_response = await client.send(request) returns: the three
\* assignments to response; "return response" then leaves the async with
\* block, whose __aexit__ is awaited before on_response returns
Answered_Loops(c, rr) ==
    /\ retry' = [retry EXCEPT ![c] = rr]
    /\ response' = [response EXCEPT ![c] = CopyRetry(@, rr)]
    /\ IF rr.status = 402
       THEN /\ wire' = [wire EXCEPT ![c] =
                           Append(@, [headers |-> request[c], timeout |-> wire[c][1].timeout])]
            /\ UNCHANGED <<pc, frame, issued>>
       ELSE /\ pc' = [pc EXCEPT ![c] = "closing"]
            /\ frame' = [frame EXCEPT ![c] = NoFrame]
            /\ issued' = [issued EXCEPT ![c] = NoIssue]
            /\ UNCHANGED wire
    /\ UNCHANGED <<active, cfg, is_retry, nreq, request, arrived, events,
                   flag_in, outcome, post, result, raw_in, built>>

Answered(c, rr) ==
    /\ retry' = [retry EXCEPT ![c] = rr]
    /\ response' = [response EXCEPT ![c] = CopyRetry(@, rr)]
    /\ frame' = [frame EXCEPT ![c] = NoFrame]
    /\ issued' = [issued EXCEPT ![c] = NoIssue]
    /\ pc' = [pc EXCEPT ![c] = "closing"]
    /\ UNCHANGED <<active, cfg, is_retry, nreq, request, wire, arrived,
                   events, flag_in, outcome, post, result, raw_in, built>>

ResendDone(c) ==
    /\ pc[c] = "resending"
    /\ \E rr \in RetryResponsesFor(active) : Answered(c, rr)

\* await client.send(request) raises (the resend fails in the transport): the
\* exception leaves the async with block, whose __aexit__ is awaited first
ResendFails_Retries(c) ==
    /\ pc[c] = "resending"
    /\ is_retry' = [is_retry EXCEPT ![HooksOf(c)] = FALSE]
    /\ frame' = [frame EXCEPT ![c] = NoFrame]
    /\ issued' = [issued EXCEPT ![c] = NoIssue]
    /\ pc' = [pc EXCEPT ![c] = "awaiting"]
    /\ UNCHANGED <<active, cfg, nreq, request, wire, arrived, response, retry, events,
                   flag_in, outcome, post, result, raw_in, built>>

ResendFails(c) ==
    /\ pc[c] = "resending"
    /\ \E e \in TransportErrors : outcome' = [outcome EXCEPT ![c] = Raising(e)]
    /\ frame' = [frame EXCEPT ![c] = NoFrame]
    /\ issued' = [issued EXCEPT ![c] = NoIssue]
    /\ pc' = [pc EXCEPT ![c] = "closing"]
    /\ UNCHANGED <<active, cfg, is_retry, nreq, request, wire, arrived, response, retry,
                   events, flag_in, post, result, raw_in, built>>

\* AsyncClient.__aexit__ of the resend's client has returned: the exception
\* reaches the except clauses and leaves client.post, or on_response returns
\* the response and client.post returns it (its body is read already)
ClientClosed(c) ==
    /\ pc[c] = "closing"
    /\ IF outcome[c].kind = "raising"
       THEN LET x == ExceptClauses(outcome[c].origin, is_retry[HooksOf(c)])
            IN /\ is_retry' = [is_retry EXCEPT ![HooksOf(c)] = x.is_retry]
               /\ outcome' = [outcome EXCEPT ![c] = x.outcome]
               /\ post' = [post EXCEPT ![c] = x.outcome]
       ELSE /\ outcome' = [outcome EXCEPT ![c] = Returned]
            /\ post' = [post EXCEPT ![c] = Returned]
            /\ UNCHANGED is_retry
    /\ pc' = [pc EXCEPT ![c] = "done"]
    /\ UNCHANGED <<active, cfg, nreq, request, wire, arrived, response, retry, frame,
                   issued, events, flag_in, result, raw_in, built>>

\* on_response returned a response it did not read (a pass-through):
\* client.post reads the body before it returns the response, or raises when
\* the read fails
ReadsBody(c, rd) ==
    /\ IF rd.ok
       THEN /\ response' = [response EXCEPT ![c].content = rd.body]
            /\ post' = [post EXCEPT ![c] = Returned]
       ELSE /\ post' = [post EXCEPT ![c] = RaisedBy("ReadError")]
            /\ UNCHANGED response
    /\ UNCHANGED <<active, cfg, is_retry, pc, nreq, request, wire, arrived, retry, frame,
                   issued, events, flag_in, outcome, result, raw_in, built>>

PostReturns(c) ==
    /\ c \in active
    /\ pc[c] = "done"
    /\ outcome[c] = Returned
    /\ post[c] = Pending
    /\ \E rd \in ReadOutcomesFor(active) : ReadsBody(c, rd)

\* parse_pdf after client.post returned or raised: the decoding of the body
\* and of the X-Payment-Response header, the client's __aexit__, the return
ParsePdfReturns(c) ==
    /\ c \in active
    /\ pc[c] = "done"
    /\ cfg[c].via = "parse_pdf"
    /\ post[c] # Pending
    /\ result[c] = NoResult
    /\ result' = [result EXCEPT ![c] = parse_pdf_result(post[c], response[c])]
    /\ UNCHANGED <<active, cfg, is_retry, pc, nreq, request, wire, arrived, response,
                   retry, frame, issued, events, flag_in, outcome, post, raw_in, built>>

Next ==
    \E c \in Clients :
        \/ SendRequest(c)
        \/ SendFails(c)
        \/ OnResponse(c)
        \/ ReadFails(c)
        \/ ReadDone(c)
        \/ ResendDone(c)
        \/ ResendFails(c)
        \/ ClientClosed(c)
        \/ PostReturns(c)
        \/ ParsePdfReturns(c)

Spec == Init /\ [][Next]_vars

\* ---------------------------------- SpecLive: sends return or fail
\* Every await of the exchange ends: the original send gives a response or
\* raises, response.aread() returns or raises, the resend returns or raises,
\* the resend's client closes, client.post reads the body it returns.
AwaitEnds(c) ==
    \/ SendFails(c) \/ OnResponse(c)
    \/ ReadFails(c) \/ ReadDone(c)
    \/ ResendFails(c) \/ ResendDone(c)
    \/ ClientClosed(c)
    \/ PostReturns(c)

Fairness == \A c \in Clients : WF_vars(AwaitEnds(c))

\* a client used for several requests next to one parse_pdf call
InitLive ==
    /\ InitHooks(Clients)
    /\ cfg["c1"].via = "direct"
    /\ cfg["c2"].via = "parse_pdf" /\ cfg["c2"].custom_network_filter = None
    /\ raw_in = DefaultRaw
    /\ built = NotBuilt

SpecLive == InitLive /\ [][Next]_vars /\ Fairness

\* ------------------------- SpecConc: two parse_pdf calls side by side
\* Each call builds its own _x402HttpxClient, hence its own HttpxHooks.
InitConc ==
    /\ InitHooks(Clients)
    /\ \A c \in Clients : cfg[c].via = "parse_pdf" /\ cfg[c].custom_network_filter = None
    /\ raw_in = DefaultRaw
    /\ built = NotBuilt

SpecConc == InitConc /\ [][Next]_vars

\* ------------------------------------------- SpecReq: the model class
InitReq ==
    /\ InitHooks({})
    /\ raw_in \in [scheme : Schemes, network : Networks,
                   maxAmountRequired : StringsUpTo(MaxAmtLen)]
    /\ built = NotBuilt

\* PaymentRequirements(**raw_in)
Construct ==
    /\ built.state = "pending"
    /\ built' = LET p == PaymentRequirements(raw_in)
                IN [state |-> IF p.ok THEN "ok" ELSE "failed", req |-> p.req]
    /\ UNCHANGED <<hookvars, raw_in>>

NextReq == Construct

SpecReq == InitReq /\ [][NextReq]_vars

\* ------------------------------------------------------------ claims
HandshakeOrder == <<"read", "parse", "select", "issue", "resend">>
IsPrefix(s, t) == Len(s) <= Len(t) /\ SubSeq(t, 1, Len(s)) = s

\* parse_pdf has returned for client c's exchange
Closed(c) == result[c] # NoResult

\* C1: a response whose status is not 402 is returned by on_response as it
\* arrived (status, headers, body), with no resend, no selector or issuer call,
\* and the retry flag left as it was on entry, whatever its value.  (The body
\* is read afterwards, by client.post, which leaves status and headers alone.)
C1_PassThroughNon402 ==
    \A c \in Clients :
        arrived[c].status \notin {0, 402} =>
            /\ pc[c] = "done"
            /\ outcome[c] = Returned
            /\ post[c] = Pending => response[c] = arrived[c]
            /\ response[c].content # Unread => post[c] = Returned
            /\ response[c].status = arrived[c].status
            /\ response[c].headers = arrived[c].headers
            /\ Len(wire[c]) = 1
            /\ events[c] = <<>>
            /\ frame[c] = NoFrame /\ issued[c] = NoIssue
            /\ is_retry[c] = flag_in[c]

C1_Witness ==
    \E c \in Clients :
        /\ pc[c] = "done" /\ arrived[c].status = 500 /\ flag_in[c] /\ is_retry[c]
        /\ post[c] = Pending /\ response[c].content = Unread

\* C2: a 402 that reaches on_response while the flag is 'retried' is returned
\* unchanged: on_response does not read or parse the body, nothing is selected
\* or issued, nothing is resent, and the flag stays 'retried'.
C2_PassThroughRetried402 ==
    \A c \in Clients :
        (arrived[c].status = 402 /\ flag_in[c]) =>
            /\ pc[c] = "done"
            /\ outcome[c] = Returned
            /\ post[c] = Pending => response[c] = arrived[c]
            /\ response[c].content # Unread => post[c] = Returned
            /\ response[c].status = 402
            /\ response[c].headers = arrived[c].headers
            /\ Len(wire[c]) = 1
            /\ events[c] = <<>>
            /\ frame[c] = NoFrame /\ issued[c] = NoIssue
            /\ is_retry[c]

C2_Witness ==
    \E c \in Clients :
        /\ pc[c] = "done" /\ arrived[c].status = 402 /\ flag_in[c]
        /\ post[c] = Pending /\ response[c].content = Unread

\* C3: an exchange sends at most one resend; when the resend answers 402 the
\* caller is given a response of status 402 and nothing more is sent.
C3_AtMostOneResend ==
    \A c \in Clients :
        /\ Len(wire[c]) <= 2
        /\ retry[c].status = 402 =>
              /\ pc[c] \in {"closing", "done"}
              /\ pc[c] = "done" => outcome[c] = Returned
              /\ response[c].status = 402
              /\ Len(wire[c]) = 2

C3_Witness ==
    \E c \in Clients : pc[c] = "done" /\ retry[c].status = 402 /\ Len(wire[c]) = 2

\* C4: once the resend has answered, the response given to the caller has the
\* status, the headers and the body of the resend's response.
C4_CallerSeesResend ==
    \A c \in Clients :
        retry[c].status # 0 =>
            /\ pc[c] \in {"closing", "done"}
            /\ pc[c] = "done" => (outcome[c] = Returned /\ post[c] = Returned)
            /\ response[c].status = retry[c].status
            /\ response[c].headers = retry[c].headers
            /\ response[c].content = retry[c].content

C4_Witness ==
    \E c \in Clients :
        /\ pc[c] = "done"
        /\ post[c] = Returned
        /\ arrived[c].status = 402
        /\ arrived[c].headers.x_payment_response = "absent"
        /\ retry[c].status = 200
        /\ retry[c].headers.x_payment_response = "receipt:0xabc"
        /\ retry[c].content = TextBody("B1")
        /\ response[c] = retry[c]

\* C5: the steps of an exchange are taken in the order read body, parse
\* challenge, select requirement, issue credential, resend; a resend is on the
\* wire only after the four steps before it.
C5_HandshakeOrder ==
    \A c \in Clients :
        /\ IsPrefix(events[c], HandshakeOrder)
        /\ Len(wire[c]) >= 2 => events[c] = HandshakeOrder
        /\ pc[c] = "resending" => frame[c].data.shape = "object"

C5_Witness ==
    \E c \in Clients : pc[c] = "resending" /\ events[c] = HandshakeOrder

\* C6 as the spec states it: a failure by a malformed challenge, by no
\* acceptable requirement or by the issuer is re-raised unchanged, flag reset.
SpecPaymentDomain ==
    {"JSONDecodeError", "UnicodeDecodeError", "TypeError", "ValidationError",
     NoAcceptableRequirement, "IssuerPaymentError", "IssuerError"}

C6_Original ==
    \A c \in Clients :
        (outcome[c].kind = "raised" /\ outcome[c].origin \in SpecPaymentDomain) =>
            /\ outcome[c].err = outcome[c].origin
            /\ outcome[c].cause = "none"
            /\ ~is_retry[c]

\* C6 (amended): a failure by an exception of class PaymentError is re-raised
\* unchanged with the flag 'not retried'; a malformed challenge is not a
\* PaymentError and reaches the caller wrapped in a new PaymentError with the
\* original as its cause, the flag 'not retried' as well.
C6_PaymentErrorReraised ==
    \A c \in Clients :
        /\ (outcome[c].kind = "raised" /\ outcome[c].origin \in PaymentErrors) =>
              /\ outcome[c].err = outcome[c].origin
              /\ outcome[c].cause = "none"
              /\ ~is_retry[c]
        /\ (outcome[c].kind = "raised"
            /\ outcome[c].origin \in {"JSONDecodeError", "UnicodeDecodeError", "TypeError",
                                      "ValidationError"}) =>
              /\ outcome[c].err = Wrapper
              /\ outcome[c].cause = outcome[c].origin
              /\ ~is_retry[c]

C6_Witness ==
    \E c \in Clients :
        /\ pc[c] = "done"
        /\ outcome[c].origin = "IssuerPaymentError"
        /\ outcome[c].err = "IssuerPaymentError"
        /\ events[c] = <<"read", "parse", "select", "issue">>
        /\ ~is_retry[c]

\* C7: a first 402 whose handling ends without an answer of the resend ends in
\* a raise, never a return; an exception that is no PaymentError (a failure of
\* the resend included) is raised as the generic PaymentError with the original
\* as its cause; the flag is 'not retried' afterwards.
C7_OthersWrapped ==
    \A c \in Clients :
        (pc[c] = "done" /\ arrived[c].status = 402 /\ ~flag_in[c] /\ retry[c].status = 0) =>
            /\ outcome[c].kind = "raised"
            /\ outcome[c].origin # "none"
            /\ ~is_retry[c]
            /\ ~IsPaymentError(outcome[c].origin) =>
                  /\ outcome[c].err = Wrapper
                  /\ outcome[c].cause = outcome[c].origin

C7_Witness ==
    \E c \in Clients :
        /\ pc[c] = "done"
        /\ Len(wire[c]) = 2
        /\ outcome[c].cause = "ConnectError"
        /\ outcome[c].err = Wrapper

\* C8: the resend carries X-Payment equal to what the issuer returned and
\* Access-Control-Expose-Headers: X-Payment-Response; the issuer was called
\* with the requirement the selector returned and the version of that body.
C8_ResendCarriesCredential ==
    \A c \in Clients :
        /\ Len(wire[c]) >= 2 =>
              /\ wire[c][2].headers.x_payment \in Credentials
              /\ wire[c][2].headers.access_control_expose_headers = "X-Payment-Response"
        /\ pc[c] = "resending" =>
              /\ issued[c].ok
              /\ wire[c][2].headers.x_payment = issued[c].header
              /\ frame[c].issuer_requirements =
                     select_payment_requirements(cfg[c], frame[c].selector_input).req
              /\ frame[c].issuer_version = frame[c].data.version
              /\ response[c].content = frame[c].data

C8_Witness ==
    \E c \in Clients :
        /\ pc[c] = "resending"
        /\ frame[c].data.version = 2
        /\ Len(frame[c].data.accepts) = 2
        /\ frame[c].issuer_requirements = frame[c].accepts[2]
        /\ wire[c][2].headers.x_payment = "PAID456"

\* C9 as the spec states it: construction succeeds exactly when
\* maxAmountRequired is "" (taken as zero) or parses as an integer that is
\* not negative; it fails for every other value ("12.5", "abc", "-5").
IsNonNegativeInteger(v) == v = <<>> \/ (IntParses(v) /\ IntValue(v) >= 0)

C9_Original ==
    built.state # "pending" =>
        (built.state = "ok" <=> IsNonNegativeInteger(raw_in.maxAmountRequired))

\* C10: every requirement handed to the selector has the network "base" where
\* the server sent "eip155:8453" and the server's network otherwise, entry by
\* entry, and normalizing it again changes nothing.
C10_NetworkNormalized ==
    \A c \in Clients :
        pc[c] = "resending" =>
            /\ Len(frame[c].selector_input) = Len(frame[c].data.accepts)
            /\ \A i \in 1..Len(frame[c].selector_input) :
                  LET n == frame[c].data.accepts[i].network
                      m == frame[c].selector_input[i].network
                  IN /\ m = (IF n = "eip155:8453" THEN "base" ELSE n)
                     /\ validate_network(m) = m

C10_Witness ==
    \E c \in Clients :
        /\ pc[c] = "resending"
        /\ cfg[c].custom_network_filter = "base"
        /\ Len(frame[c].data.accepts) = 2
        /\ frame[c].data.accepts[1].network = "solana"
        /\ frame[c].data.accepts[2].network = "eip155:8453"
        /\ frame[c].selected_requirements.network = "base"

\* C11: the requirement paid is the first entry of accepts, in server order,
\* whose network equals the network filter (if given), whose scheme equals the
\* scheme filter (if given) and whose amount is at most maxValue (if given);
\* with accepts empty or no such entry, selection fails with
\* NoAcceptableRequirement and no resend is sent.  In parse_pdf a non-empty
\* custom_network_filter is the network filter used, whatever network filter
\* is passed to the selector.
AmountOf(r) == IF r.max_amount_required = <<>> THEN 0 ELSE IntValue(r.max_amount_required)

First(S) == IF S = {} THEN 0 ELSE CHOOSE i \in S : \A j \in S : i <= j

FirstBySpec(accepts, nf, sf, mv) ==
    First({i \in 1..Len(accepts) :
              /\ nf # None => accepts[i].network = nf
              /\ sf # None => accepts[i].scheme = sf
              /\ mv.set => AmountOf(accepts[i]) <= mv.val})

SelectionFailed(c) == pc[c] = "done" /\ events[c] = <<"read", "parse", "select">>

\* the filters a caller of the selector may pass
PassedNetworkFilters == {None, "base", "solana"}
PassedSchemeFilters == {None, "exact", "upto"}

\* the network filter in force: the non-empty custom_network_filter, else the
\* one passed
FilterInForce(custom, passed) == IF custom \notin {None, ""} THEN custom ELSE passed

C12_Original ==
    \A c \in Clients :
        LET h == response[c].headers.x_payment_response
        IN (/\ Closed(c)
            /\ outcome[c] = Returned
            /\ h # "absent" /\ ~decode_x_payment_response(h).ok
            /\ response[c].content # Unread
            /\ Utf8Decode(response[c].content).ok)
           => /\ result[c].kind = "success"
              /\ result[c].result = response[c].content

\* C13 as the spec states it: when the final response has no
\* X-Payment-Response header, parse_pdf does not fail: it returns the response
\* body as the result with a null transaction id; a transaction id that is
\* not null is returned only when the header is present and decoded.
C13_Original ==
    \A c \in Clients :
        LET h == response[c].headers.x_payment_response
        IN /\ (Closed(c) /\ post[c] = Returned /\ h = "absent") =>
                 /\ result[c].kind = "success"
                 /\ result[c].result = response[c].content
                 /\ result[c].hash = None
           /\ result[c].hash # None =>
                 /\ h # "absent"
                 /\ decode_x_payment_response(h).ok

\* C13, amended: with no X-Payment-Response header on the final response,
\* parse_pdf returns the body as the result with a null transaction id
\* whenever the body is valid UTF-8; it fails only when the body itself cannot
\* be read (ReadError) or is not UTF-8 (UnicodeDecodeError), never because the
\* header is missing.  A transaction id that is not null is the one decoded
\* from a header that is present.
C13_AbsentHeaderIsNoError ==
    \A c \in Clients :
        LET h == response[c].headers.x_payment_response
        IN /\ (Closed(c) /\ outcome[c] = Returned /\ h = "absent") =>
                 /\ result[c].kind \in {"success", "error"}
                 /\ result[c].kind = "error" =>
                        \/ /\ post[c] = RaisedBy("ReadError")
                           /\ response[c].content = Unread
                           /\ result[c].caught = "ReadError"
                        \/ /\ post[c] = Returned
                           /\ ~response[c].content.utf8
                           /\ result[c].caught = "UnicodeDecodeError"
                 /\ result[c].kind = "success" =>
                        /\ result[c].hash = None
                        /\ result[c].result.shape = "text"
                 /\ (post[c] = Returned /\ response[c].content.utf8) =>
                        result[c] = Success(response[c].content, None)
           /\ result[c].hash # None =>
                 /\ outcome[c] = Returned
                 /\ h # "absent"
                 /\ decode_x_payment_response(h).ok
                 /\ result[c].hash = decode_x_payment_response(h).transaction

C13_Witness ==
    \E c \in Clients :
        /\ Closed(c)
        /\ Len(wire[c]) = 2
        /\ response[c].status = 200
        /\ response[c].headers.x_payment_response = "absent"
        /\ result[c] = Success(TextBody("B1"), None)

\* C14: whatever fails during the exchange (the original send, the resend,
\* the hook, reading or decoding the body or the receipt), parse_pdf returns
\* {"error": ...}: it never lets the exception out and never returns a
\* success result for an exchange in which something was raised.
C14_FailuresCaught ==
    \A c \in Clients :
        Closed(c) =>
            /\ result[c].kind \in {"success", "error"}
            /\ outcome[c].kind = "raised" =>
                   result[c] = Failure(outcome[c].err)
            /\ post[c].kind = "raised" =>
                   result[c] = Failure(post[c].err)
            /\ result[c].kind = "success" =>
                   LET h == response[c].headers.x_payment_response
                   IN /\ outcome[c] = Returned
                      /\ post[c] = Returned
                      /\ Utf8Decode(result[c].result).ok
                      /\ result[c].result.shape # "unread"
                      /\ result[c].result = response[c].content
                      /\ h # "absent" => decode_x_payment_response(h).ok

C14_Witness ==
    \E c \in Clients :
        /\ Closed(c)
        /\ Len(wire[c]) = 2
        /\ outcome[c].cause = "ConnectError"
        /\ result[c].kind = "error"

\* C15: in every interleaving of two parse_pdf calls, a step of one exchange
\* (a retry, a failure reset, anything) leaves the other's retry flag and the
\* rest of its state as they were, and a 402 that opens an exchange is never
\* passed through as already retried: it gets its own payment attempt.
Moved(c) == pc'[c] # pc[c] \/ post'[c] # post[c] \/ result'[c] # result[c]

OwnState(c) ==
    <<is_retry[c], pc[c], request[c], wire[c], arrived[c], response[c], retry[c],
      frame[c], issued[c], events[c], flag_in[c], outcome[c], post[c], result[c]>>

C15_NoSharedState ==
    /\ [][\A c \in Clients : \A d \in Clients \ {c} :
              Moved(c) => /\ is_retry'[d] = is_retry[d]
                          /\ OwnState(d)' = OwnState(d)]_vars
    /\ [](\A c \in Clients :
              arrived[c].status = 402 =>
                  /\ ~flag_in[c]
                  /\ ~(outcome[c] = Returned /\ Len(wire[c]) = 1))

C15_Witness ==
    /\ pc["c1"] = "resending" /\ is_retry["c1"]
    /\ pc["c2"] = "done" /\ Len(wire["c2"]) = 2
    /\ outcome["c2"].cause = "ConnectError" /\ ~is_retry["c2"]

\* C16 as the spec states it: every request sent through a client starts with
\* that client's retry flag 'not retried', also after an earlier request was
\* settled by a paid resend, so that a 402 on it is never returned unpaid
\* without a payment attempt.
C16_Original ==
    \A c \in Clients :
        /\ pc[c] = "awaiting" => ~is_retry[c]
        /\ arrived[c].status = 402 => ~flag_in[c]

\* C17 as the spec states it: the headers of the original request object are
\* the same after the handshake as when the request was first sent.
C17_Original ==
    \A c \in Clients :
        Len(wire[c]) >= 1 => request[c] = wire[c][1].headers

\* C17, amended: the request that is resent is the original request object,
\* not a clone.  Once a resend was sent, whether it succeeds or fails, the
\* original request's headers are those of the resend: X-Payment and
\* Access-Control-Expose-Headers set.  On every path that sends no resend
\* they are as they were sent.
C17_RequestMutatedInPlace ==
    \A c \in Clients :
        /\ Len(wire[c]) = 1 => request[c] = wire[c][1].headers
        /\ Len(wire[c]) = 2 =>
              /\ request[c] = wire[c][2].headers
              /\ request[c] # wire[c][1].headers
              /\ request[c].x_payment \in Credentials
              /\ request[c].access_control_expose_headers = "X-Payment-Response"

C17_Witness ==
    \E c \in Clients :
        /\ pc[c] = "done"
        /\ Len(wire[c]) = 2
        /\ outcome[c].cause = "ConnectError"
        /\ request[c].x_payment = "PAID123"
        /\ wire[c][1].headers.x_payment = "absent"

\* C18: the state of client c's current exchange, in the spec's names
Phase(c) ==
    CASE pc[c] = "idle" -> "Idle"
      [] pc[c] = "awaiting" -> "AwaitingResponse"
      [] pc[c] \in {"reading", "resending", "closing"} -> "PaymentRequired"
      [] pc[c] = "done" /\ outcome[c].kind = "returned" -> "Settled"
      [] OTHER -> "Failed"

\* the moves within one exchange (q = p: another client took the step, or the
\* handler went from one await to the next inside PaymentRequired)
Allowed(p, q) ==
    \/ q = p
    \/ p = "AwaitingResponse" /\ q \in {"PaymentRequired", "Settled", "Failed"}
    \/ p = "PaymentRequired" /\ q \in {"Settled", "Failed"}

\* C18: within an exchange the state only moves forward, from
\* AwaitingResponse to PaymentRequired, Settled or Failed and from
\* PaymentRequired to Settled or Failed; PaymentRequired is never entered
\* again, Settled and Failed are left only by the next exchange, which starts
\* in AwaitingResponse; and, every send returning or failing, an exchange
\* that awaits its response ends Settled or Failed.
C18_StrictSequence ==
    /\ [][\A c \in Clients :
              /\ nreq'[c] = nreq[c] =>
                    /\ Allowed(Phase(c), Phase(c)')
                    /\ (Phase(c) \in {"Settled", "Failed"} => outcome'[c] = outcome[c])
              /\ nreq'[c] # nreq[c] =>
                    /\ nreq'[c] = nreq[c] + 1
                    /\ Phase(c) \in {"Idle", "Settled", "Failed"}
                    /\ Phase(c)' = "AwaitingResponse"]_vars
    /\ \A c \in Clients : []<>(Phase(c) \in {"Idle", "Settled", "Failed"})

C18_Witness ==
    \E c \in Clients :
        /\ nreq[c] = 2
        /\ Phase(c) = "Settled"
        /\ events[c] = HandshakeOrder
        /\ retry[c].status = 200

\* C19: every request of an exchange, the resend included, is sent under the
\* timeout the caller configured on the client, never under the unlimited one
\* of the client that sends the resend.
C19_ResendSameTimeout ==
    \A c \in Clients :
        \A i \in 1..Len(wire[c]) :
            /\ wire[c][i].timeout = ClientTimeout
            /\ wire[c][i].timeout = wire[c][1].timeout
            /\ wire[c][i].timeout # NoTimeout

C19_Witness ==
    \E c \in Clients :
        /\ cfg[c].via = "parse_pdf"
        /\ pc[c] = "resending"
        /\ Len(wire[c]) = 2
        /\ wire[c][2].headers.x_payment = "PAID123"
        /\ wire[c][2].timeout = [limited |-> TRUE, seconds |-> 60]

\* the exceptions that end on_response before client.send is reached
BeforeResend ==
    {"RuntimeError", "ReadError", "JSONDecodeError", "UnicodeDecodeError", "TypeError",
     "ValidationError", NoAcceptableRequirement, "IssuerPaymentError", "IssuerError"}

\* C20: the retry flag is set and the resend is sent in one step of
\* on_response, and only in a call that parsed the 402 body, selected one of
\* its requirements and got a header value from the issuer, which the resend
\* carries; a call that fails for a missing request, an unreadable or
\* unparseable body, a failed selection or a failed issuance sends no resend
\* and leaves the flag 'not retried'.
C20_ResendOnlyAfterIssue ==
    /\ [][\A c \in Clients :
              (\/ is_retry'[c] /\ ~is_retry[c]
               \/ Len(wire[c]) >= 1 /\ Len(wire'[c]) > Len(wire[c])) =>
                  /\ pc[c] = "reading" /\ pc'[c] = "resending"
                  /\ is_retry'[c] /\ ~is_retry[c]
                  /\ Len(wire[c]) = 1 /\ Len(wire'[c]) = 2
                  /\ events'[c] = HandshakeOrder
                  /\ issued'[c].ok
                  /\ x402PaymentRequiredResponse(frame'[c].data).ok
                  /\ \E i \in 1..Len(frame'[c].accepts) :
                         frame'[c].accepts[i] = frame'[c].selected_requirements
                  /\ wire'[c][2].headers.x_payment = issued'[c].header]_vars
    /\ [](\A c \in Clients :
              /\ Len(wire[c]) = 2 =>
                    /\ events[c] = HandshakeOrder
                    /\ wire[c][2].headers.x_payment \in Credentials
              /\ (outcome[c].kind = "raised" /\ outcome[c].origin \in BeforeResend) =>
                    /\ Len(wire[c]) = 1
                    /\ ~is_retry[c]
                    /\ ~IsPrefix(HandshakeOrder, events[c]))

C20_Witness ==
    \E c \in Clients :
        /\ pc[c] = "done"
        /\ events[c] = <<"read", "parse", "select", "issue">>
        /\ outcome[c].origin = "IssuerError"
        /\ Len(wire[c]) = 1
        /\ ~is_retry[c]

====
